---- MODULE Spec2Model ----
(***************************************************************************)
(* Unity System Monitor, src/unity_sys_monitor.py: class UnitySysMonitor.   *)
(*                                                                         *)
(* Threads of the program:                                                 *)
(*   sampler  update_stats, the daemon thread started by __init__          *)
(*   reader   read_radeontop_output, the daemon thread started by          *)
(*            start_radeontop                                              *)
(*   main     the GTK main loop: runs the callbacks queued with            *)
(*            GLib.idle_add and the menu handlers                          *)
(* and, outside the program, the radeontop helper process and the          *)
(* power-profiles daemon.                                                  *)
(*                                                                         *)
(* Percentages carry one decimal and are held in tenths (99.9 is 999).     *)
(* A byte rate is the exact quotient of the float division, held as a      *)
(* fraction in lowest terms.                                               *)
(***************************************************************************)
EXTENDS Integers, Sequences, FiniteSets, TLC

\* ------------------------------------------------------------- bounds
\* calls GLib.idle_add may still hold when the sampler hands over a cycle
MaxIdle == 1
\* lines the helper's stdout pipe may hold before the reader takes them
MaxPipe == 1
\* where the count of the cycles completed since the last profile query stops
MaxCompleted == 6
\* where the counts of what the threads do after a shutdown request stop
MaxAfterQuit == 2

\* ---------------------------------------------------- program constants
\* min(value, 99.9) in update_labels and format_percent, in tenths
CapPercent == 999
\* if self.update_count >= 5
ProfileCheckEvery == 5
\* self.update_interval = 1
DefaultInterval == 1
\* psutil.cpu_percent(interval=1): the seconds the CPU measurement blocks
CpuWindow == 1

Profiles == {"performance", "balanced", "power-saver"}
\* for interval in [1, 2, 5]
Intervals == {1, 2, 5}

\* ------------------------------------------------------- input domains
\* psutil.cpu_percent / virtual_memory().percent / disk_usage('/').percent
CpuVals == {375, 1000}
MemVals == {612, 1000}
DiskVals == {480, 1000}
\* psutil.net_io_counters(): cumulative bytes_recv, bytes_sent
NetVals ==
    { [bytes_recv |-> 1000, bytes_sent |-> 500],
      [bytes_recv |-> 3048, bytes_sent |-> 1012],
      [bytes_recv |-> 3048, bytes_sent |-> 500] }
\* time.time(): the wall clock, which may stand still or step back
TimeVals == {0, 1, 2}
\* the psutil calls of one cycle, each of which may raise
Sources == {"cpu", "mem", "disk", "net"}
\* what powerprofilesctl get may print besides a profile name
OtherOutput == "unknown"

\* ------------------------------------------------------------- helpers
Min(a, b) == IF a < b THEN a ELSE b

Abs(n) == IF n < 0 THEN -n ELSE n

RECURSIVE Gcd(_, _)
Gcd(a, b) == IF b = 0 THEN a ELSE Gcd(b, a % b)

\* n / d of Python for d # 0: the quotient as a fraction in lowest terms
TrueDiv(n, d) ==
    LET g == Gcd(Abs(n), Abs(d))
        s == IF d < 0 THEN -1 ELSE 1
    IN  [num |-> s * (n \div g), den |-> Abs(d) \div g]

\* a percentage not shown: the menu item still reads "Initializing..."
Initializing == -1
\* the GPU menu item does not exist
NoItem == -2
\* an attribute or local name that is not bound yet
Unbound == -1
NoRate == [num |-> 0, den |-> 0]
NoProfile == "none"

VARIABLES
    phase,                  \* "new": before __init__; "up"; "crashed": __init__ raised;
                            \* "exited": Gtk.main() returned
    running,                \* self.running
    radeontop_found,        \* what check_radeontop returned
    has_radeontop,          \* self.has_radeontop
    radeontop_process,      \* self.radeontop_process: "None" or "Popen"
    radeontop_lock,         \* self.radeontop_lock: "free" or the thread holding it
    gpu_percent,            \* self.gpu_percent
    has_power_profiles,     \* self.has_power_profiles
    current_power_profile,  \* self.current_power_profile
    update_interval,        \* self.update_interval
    prev_net_io,            \* self.prev_net_io
    prev_net_time,          \* self.prev_net_time
    update_count,           \* self.update_count, Unbound until first assigned
    pc,                     \* where the sampler thread stands in update_stats
    loc,                    \* the locals of update_stats
    sampler_error,          \* the exception that ended the sampler thread
    last_query,             \* how the sampler's last powerprofilesctl get ended
    reader_pc,              \* where the reader thread stands in read_radeontop_output
    reader_match,           \* match.group(1) of the line the reader holds
    helper,                 \* the pkexec radeontop process
    pipe,                   \* the helper's stdout: lines written and not yet read
    pipe_open,              \* the helper still holds the write end of its stdout
    spawn_count,            \* calls of start_radeontop so far
    helper_failed,          \* the helper failed: spawn error, exit, closed stream, read error
    main,                   \* what the GTK main thread is doing
    requested,              \* the profile on_profile_toggled is setting
    idle,                   \* callbacks queued with GLib.idle_add, oldest first
    labels,                 \* what the menu items show
    sys_profile,            \* the profile the power-profiles daemon holds
    after_quit              \* what the threads have done since quit cleared running

vars == << phase, running, radeontop_found, has_radeontop, radeontop_process,
           radeontop_lock, gpu_percent, has_power_profiles,
           current_power_profile, update_interval, prev_net_io, prev_net_time,
           update_count, pc, loc, sampler_error, last_query, reader_pc,
           reader_match, helper, pipe, pipe_open, spawn_count, helper_failed,
           main, requested, idle, labels, sys_profile, after_quit >>

gpuVars == << radeontop_found, has_radeontop, radeontop_process,
              radeontop_lock, gpu_percent, reader_pc, reader_match, helper,
              pipe, pipe_open, spawn_count, helper_failed >>

NoSample == [bytes_recv |-> 0, bytes_sent |-> 0]

\* the locals of update_stats before its first cycle
NoLocals ==
    [ cpu_percent |-> Unbound, gpu_percent |-> Unbound, gpu_read |-> FALSE,
      mem_percent |-> Unbound, disk_percent |-> Unbound,
      current_net_io |-> NoSample, current_time |-> Unbound,
      recv_speed |-> NoRate, sent_speed |-> NoRate,
      new_profile |-> NoProfile,
      \* not a local: has_radeontop was false when the cycle began
      began_disabled |-> FALSE,
      \* not a local: the cycles completed since the last query of the
      \* power profile, counted while the probe is available
      completed |-> 0,
      \* not a local: the seconds the cycle has taken so far (its blocking
      \* calls; the other statements count as taking no time)
      elapsed |-> 0,
      \* the argument of the time.sleep in progress
      sleep_for |-> Unbound ]

\* since the shutdown request: cycles begun and cycles handed over by the
\* sampler, readline calls returned to the reader
NoneAfterQuit == [cycles |-> 0, handed |-> 0, reads |-> 0]

\* after_quit once the event named by field has happened
Counted(field) ==
    IF running THEN after_quit
    ELSE [after_quit EXCEPT ![field] = Min(@ + 1, MaxAfterQuit)]

Init ==
    /\ after_quit = NoneAfterQuit
    /\ phase = "new"
    /\ running = FALSE
    /\ radeontop_found = FALSE
    /\ has_radeontop = FALSE
    /\ radeontop_process = "None"
    /\ radeontop_lock = "free"
    /\ gpu_percent = 0
    /\ has_power_profiles = FALSE
    /\ current_power_profile = "balanced"
    /\ update_interval = DefaultInterval
    /\ prev_net_io = NoSample
    /\ prev_net_time = 0
    /\ update_count = Unbound
    /\ pc = "none"
    /\ loc = NoLocals
    /\ sampler_error = "none"
    /\ last_query = "none"
    /\ reader_pc = "none"
    /\ reader_match = Unbound
    /\ helper = "none"
    /\ pipe = << >>
    /\ pipe_open = FALSE
    /\ spawn_count = 0
    /\ helper_failed = FALSE
    /\ main = "init"
    /\ requested = NoProfile
    /\ idle = << >>
    /\ labels = [cpu |-> Initializing, gpu |-> NoItem, mem |-> Initializing,
                 disk |-> Initializing]
    /\ sys_profile = "balanced"

\* ------------------------------------------------- power-profile query
\* how a run of powerprofilesctl get may end: it prints the daemon's profile,
\* prints something else, exits non-zero (CalledProcessError), or cannot be
\* run at all (OSError, which get_current_power_profile does not catch)
QueryOutcomes == {"ok", "other", "CalledProcessError", "OSError"}

\* get_current_power_profile when the run does not raise past it
GetCurrentPowerProfile(q) ==
    CASE q = "ok" -> sys_profile
      [] q = "other" -> OtherOutput
      [] q = "CalledProcessError" -> "balanced"

\* ---------------------------------------------------------- __init__
\* how subprocess.Popen(["pkexec", "radeontop", ...]) may end
SpawnOutcomes == {"ok", "SubprocessError", "OSError"}

\* start_radeontop called whatever check_radeontop found
StartsHelperAlways(found) == TRUE

\* if self.has_radeontop: self.start_radeontop()
StartsHelper(found) == found

\* start_radeontop, called with has_radeontop true
StartRadeontop(spawn) ==
    /\ spawn_count' = spawn_count + 1
    /\ has_radeontop' = (spawn # "SubprocessError")
    /\ helper_failed' = (spawn # "ok")
    /\ IF spawn = "ok"
       THEN /\ radeontop_process' = "Popen"
            /\ helper' = "alive"
            /\ pipe_open' = TRUE
            /\ reader_pc' = "loop"
       ELSE UNCHANGED << radeontop_process, helper, pipe_open, reader_pc >>

\* __init__: the probes, the first counter sample, the helper, the sampler
\* thread.  An OSError of the first powerprofilesctl get, or of Popen, leaves
\* __init__ at that line and ends the program.
Construct(E) ==
    \E found \in E.found, pp \in E.pp, q \in E.query, spawn \in E.spawn,
       io \in E.net, t \in E.time :
      \E daemon \in IF pp THEN Profiles ELSE {sys_profile} :
        /\ phase = "new"
        \* the profile the daemon holds when the program starts
        /\ sys_profile' = daemon
        /\ running' = TRUE
        /\ radeontop_found' = found
        /\ has_power_profiles' = pp
        /\ current_power_profile' =
               IF pp /\ q # "OSError"
               THEN (CASE q = "ok" -> daemon
                       [] OTHER -> GetCurrentPowerProfile(q))
               ELSE "balanced"
        /\ labels' = [labels EXCEPT !.gpu = IF found THEN Initializing ELSE NoItem]
        /\ update_interval' = DefaultInterval
        /\ prev_net_io' = io
        /\ prev_net_time' = t
        /\ IF StartsHelper(found) /\ ~(pp /\ q = "OSError")
           THEN StartRadeontop(spawn)
           ELSE /\ has_radeontop' = found
                /\ UNCHANGED << spawn_count, helper_failed, radeontop_process,
                                helper, pipe_open, reader_pc >>
        /\ IF (pp /\ q = "OSError") \/ (StartsHelper(found) /\ spawn = "OSError")
           THEN /\ phase' = "crashed"
                /\ UNCHANGED << pc, main >>
           ELSE /\ phase' = "up"
                /\ pc' = "test"
                /\ main' = "idle"
        /\ UNCHANGED << radeontop_lock, gpu_percent, update_count, loc,
                        sampler_error, last_query, reader_match, pipe, idle,
                        requested, after_quit >>

\* ------------------------------------------------------- update_stats
\* an exception leaves update_stats: the sampler thread ends
Raise(what) ==
    /\ pc' = "dead"
    /\ sampler_error' = what

\* the arguments of GLib.idle_add(self.update_labels, ...)
LabelsCall(l) ==
    [ fn |-> "update_labels", cpu |-> l.cpu_percent, gpu |-> l.gpu_percent,
      gpu_read |-> l.gpu_read, mem |-> l.mem_percent, disk |-> l.disk_percent,
      recv |-> l.recv_speed, sent |-> l.sent_speed ]

ProfileUiCall ==
    [ fn |-> "update_power_profile_ui", cpu |-> Unbound, gpu |-> Unbound,
      gpu_read |-> FALSE, mem |-> Unbound, disk |-> Unbound,
      recv |-> NoRate, sent |-> NoRate ]

\* the locals once the cycle has handed them over: the readings are dead
\* until the next cycle binds them again, the rates and the time stay bound
Settled(l) ==
    [ l EXCEPT !.cpu_percent = Unbound, !.gpu_percent = Unbound,
               !.gpu_read = FALSE, !.mem_percent = Unbound,
               !.disk_percent = Unbound, !.new_profile = NoProfile,
               !.completed = IF has_power_profiles
                             THEN Min(@ + 1, MaxCompleted) ELSE @ ]

\* the loop going on whatever self.running says
SamplerContinuesAlways == TRUE

\* while self.running: (line 328)
SamplerContinues == running

\* while self.running:
S_LoopTest ==
    /\ phase = "up" /\ pc = "test"
    /\ pc' = IF SamplerContinues THEN "cpu" ELSE "done"
    /\ after_quit' = IF SamplerContinues THEN Counted("cycles") ELSE after_quit
    /\ loc' = [loc EXCEPT !.began_disabled = ~has_radeontop, !.elapsed = 0]
    /\ UNCHANGED << phase, running, gpuVars, has_power_profiles,
                    current_power_profile, update_interval, prev_net_io,
                    prev_net_time, update_count, sampler_error,
                    last_query, main, idle, labels, sys_profile, requested >>

\* cpu_percent = psutil.cpu_percent(interval=1)
S_Cpu(E) ==
    \E f \in E.fail \cup {"none"}, v \in E.cpu :
        /\ phase = "up" /\ pc = "cpu"
        /\ IF f = "cpu"
           THEN Raise(f) /\ UNCHANGED loc
           ELSE /\ pc' = "gpu"
                /\ loc' = [loc EXCEPT !.cpu_percent = v, !.elapsed = CpuWindow]
                /\ UNCHANGED sampler_error
        /\ UNCHANGED << phase, after_quit, running, gpuVars, has_power_profiles,
                        current_power_profile, update_interval, prev_net_io,
                        prev_net_time, update_count, last_query, main, idle,
                        labels, sys_profile, requested >>

\* the GPU reading taken whatever the flag says
SamplerAlwaysReadsGpu == TRUE

\* if self.has_radeontop: (line 334)
SamplerReadsGpu == has_radeontop

\* gpu_percent = 0; if self.has_radeontop:
S_GpuCheck ==
    /\ phase = "up" /\ pc = "gpu"
    /\ loc' = [loc EXCEPT !.gpu_percent = 0, !.gpu_read = FALSE]
    /\ pc' = IF SamplerReadsGpu THEN "lock" ELSE "gather"
    /\ UNCHANGED << phase, after_quit, running, gpuVars, has_power_profiles,
                    current_power_profile, update_interval, prev_net_io,
                    prev_net_time, update_count, sampler_error, last_query,
                    main, idle, labels, sys_profile, requested >>

\* with self.radeontop_lock: (entry)
S_GpuAcquire ==
    /\ phase = "up" /\ pc = "lock"
    /\ radeontop_lock = "free"
    /\ radeontop_lock' = "sampler"
    /\ pc' = "read"
    /\ UNCHANGED << phase, after_quit, running, radeontop_found, has_radeontop,
                    radeontop_process, gpu_percent, reader_pc, reader_match,
                    helper, pipe, pipe_open, spawn_count, helper_failed,
                    has_power_profiles, current_power_profile,
                    update_interval, prev_net_io, prev_net_time, update_count,
                    loc, sampler_error, last_query, main, idle, labels,
                    sys_profile, requested >>

\* gpu_percent = self.gpu_percent, and the lock is released
S_GpuRead ==
    /\ phase = "up" /\ pc = "read"
    /\ loc' = [loc EXCEPT !.gpu_percent = gpu_percent, !.gpu_read = TRUE]
    /\ radeontop_lock' = "free"
    /\ pc' = "gather"
    /\ UNCHANGED << phase, after_quit, running, radeontop_found, has_radeontop,
                    radeontop_process, gpu_percent, reader_pc, reader_match,
                    helper, pipe, pipe_open, spawn_count, helper_failed,
                    has_power_profiles, current_power_profile,
                    update_interval, prev_net_io, prev_net_time, update_count,
                    sampler_error, last_query, main, idle, labels,
                    sys_profile, requested >>

\* Rate without the division by the elapsed time
RateUndivided(cur_bytes, prev_bytes, time_delta) ==
    TrueDiv(cur_bytes - prev_bytes, 1)

\* recv_speed = (current - previous) / time_delta
Rate(cur_bytes, prev_bytes, time_delta) ==
    TrueDiv(cur_bytes - prev_bytes, time_delta)

\* if self.has_power_profiles and hasattr(self, 'update_count'):
CountsCycles == has_power_profiles /\ update_count # Unbound

\* the profile queried in every cycle that counts
QueryDueEveryCycle == CountsCycles

\* self.update_count += 1; if self.update_count >= 5:
QueryDue == CountsCycles /\ update_count + 1 >= ProfileCheckEvery

\* update_count after the cycle's bookkeeping
NextCount ==
    IF CountsCycles /\ ~QueryDue THEN update_count + 1 ELSE 0

\* memory, disk and network readings, the rates, the retained sample, the
\* cycle count and, unless the profile is to be queried first, the hand-over
\* of the cycle's values to the main loop
S_Gather(E) ==
    \E f \in E.fail \cup {"none"}, m \in E.mem, d \in E.disk, io \in E.net,
       t \in E.time :
        LET time_delta == t - prev_net_time
            full == [ loc EXCEPT
                        !.mem_percent = m, !.disk_percent = d,
                        !.current_net_io = io, !.current_time = t,
                        !.recv_speed = Rate(io.bytes_recv, prev_net_io.bytes_recv,
                                            time_delta),
                        !.sent_speed = Rate(io.bytes_sent, prev_net_io.bytes_sent,
                                            time_delta) ]
        IN  /\ phase = "up" /\ pc = "gather"
            /\ IF f \in {"mem", "disk", "net"}
               THEN /\ Raise(f)
                    /\ UNCHANGED << loc, prev_net_io, prev_net_time,
                                    update_count, idle, after_quit >>
               ELSE IF time_delta = 0
               THEN /\ Raise("ZeroDivisionError")
                    /\ loc' = [ loc EXCEPT !.mem_percent = m, !.disk_percent = d,
                                           !.current_net_io = io,
                                           !.current_time = t ]
                    /\ UNCHANGED << prev_net_io, prev_net_time, update_count,
                                    idle, after_quit >>
               ELSE /\ prev_net_io' = io
                    /\ prev_net_time' = t
                    /\ update_count' = NextCount
                    /\ UNCHANGED sampler_error
                    /\ IF QueryDue
                       THEN /\ pc' = "query"
                            /\ loc' = full
                            /\ UNCHANGED << idle, after_quit >>
                       ELSE /\ Len(idle) < MaxIdle
                            /\ idle' = Append(idle, LabelsCall(full))
                            /\ after_quit' = Counted("handed")
                            /\ loc' = Settled(full)
                            /\ pc' = "sleep"
            /\ UNCHANGED << phase, running, gpuVars, has_power_profiles,
                            current_power_profile, update_interval,
                            last_query, main, labels, sys_profile, requested >>

\* new_profile = self.get_current_power_profile()
S_Query(E) ==
    \E q \in E.query :
        /\ phase = "up" /\ pc = "query"
        /\ last_query' = q
        /\ IF q = "OSError"
           THEN Raise(q) /\ UNCHANGED loc
           ELSE /\ loc' = [loc EXCEPT !.new_profile = GetCurrentPowerProfile(q),
                                       !.completed = 0]
                /\ pc' = "compare"
                /\ UNCHANGED sampler_error
        /\ UNCHANGED << phase, after_quit, running, gpuVars, has_power_profiles,
                        current_power_profile, update_interval, prev_net_io,
                        prev_net_time, update_count, main, idle, labels,
                        sys_profile, requested >>

\* if new_profile != self.current_power_profile: ... and the hand-over of the
\* cycle's values
S_Compare ==
    LET changed == loc.new_profile # current_power_profile
        queued == IF changed THEN Append(idle, ProfileUiCall) ELSE idle
    IN  /\ phase = "up" /\ pc = "compare"
        /\ Len(idle) < MaxIdle
        /\ current_power_profile' = loc.new_profile
        /\ idle' = Append(queued, LabelsCall(loc))
        /\ after_quit' = Counted("handed")
        /\ loc' = Settled(loc)
        /\ pc' = "sleep"
        /\ UNCHANGED << phase, running, gpuVars, has_power_profiles,
                        update_interval, prev_net_io, prev_net_time,
                        update_count, sampler_error, last_query, main, labels,
                        sys_profile, requested >>

\* the sleep always as long as the interval set by __init__
SleepDurationFixed == DefaultInterval

\* the argument of time.sleep(self.update_interval), evaluated at the call
SleepDuration == update_interval

\* time.sleep(self.update_interval): the call
S_Sleep ==
    /\ phase = "up" /\ pc = "sleep"
    /\ loc' = [loc EXCEPT !.sleep_for = SleepDuration]
    /\ pc' = "sleeping"
    /\ UNCHANGED << phase, after_quit, running, gpuVars, has_power_profiles,
                    current_power_profile, update_interval, prev_net_io,
                    prev_net_time, update_count, sampler_error,
                    last_query, main, idle, labels, sys_profile, requested >>

\* time.sleep returns, sleep_for seconds after the call
S_Wake ==
    /\ phase = "up" /\ pc = "sleeping"
    /\ loc' = [loc EXCEPT !.sleep_for = Unbound]
    /\ pc' = "test"
    /\ UNCHANGED << phase, after_quit, running, gpuVars, has_power_profiles,
                    current_power_profile, update_interval, prev_net_io,
                    prev_net_time, update_count, sampler_error,
                    last_query, main, idle, labels, sys_profile, requested >>

\* ------------------------------------------------------ the main loop
\* format_percent without its cap
FormatUncapped(value) == value

\* format_percent: min(value, 99.9), printed with one decimal
FormatPercent(value) == Min(value, CapPercent)

\* update_labels, run by the main loop for the oldest queued call
UpdateLabels ==
    /\ phase = "up" /\ main = "idle"
    /\ idle # << >> /\ Head(idle).fn = "update_labels"
    /\ LET a == Head(idle)
       IN  labels' =
             [ cpu  |-> FormatPercent(Min(a.cpu, CapPercent)),
               gpu  |-> IF has_radeontop
                        THEN FormatPercent(Min(a.gpu, CapPercent))
                        ELSE labels.gpu,
               mem  |-> FormatPercent(a.mem),
               disk |-> FormatPercent(a.disk) ]
    /\ idle' = Tail(idle)
    /\ UNCHANGED << phase, after_quit, running, gpuVars, has_power_profiles,
                    current_power_profile, update_interval, prev_net_io,
                    prev_net_time, update_count, pc, loc, sampler_error,
                    last_query, main, sys_profile, requested >>

\* update_power_profile_ui, run by the main loop for the oldest queued call
UpdatePowerProfileUi ==
    /\ phase = "up" /\ main = "idle"
    /\ idle # << >> /\ Head(idle).fn = "update_power_profile_ui"
    /\ idle' = Tail(idle)
    /\ UNCHANGED << phase, after_quit, running, gpuVars, has_power_profiles,
                    current_power_profile, update_interval, prev_net_io,
                    prev_net_time, update_count, pc, loc, sampler_error,
                    last_query, main, labels, sys_profile, requested >>

\* ------------------------------------------------ the helper process
\* a token of a line of radeontop's output: a word, or a number printed
\* with a decimal point ("float", x in tenths) or without one ("int")
WordTok(w) == [w |-> w, x |-> Unbound]
FloatTok(x) == [w |-> "float", x |-> x]
IntTok(x) == [w |-> "int", x |-> x]

LineVals ==
    { << WordTok("gpu"), FloatTok(457), WordTok("vram"), FloatTok(123) >>,
      << WordTok("memory"), FloatTok(800) >>,
      << WordTok("gpu"), IntTok(45), WordTok("gpu"), FloatTok(1000) >> }

\* re.search(r'gpu\s+(\d+\.\d+)', line): the places where the word gpu is
\* followed by a number with a decimal point
MatchesAt(line) ==
    { i \in 1..(Len(line) - 1) : line[i].w = "gpu" /\ line[i + 1].w = "float" }

\* the first number with a decimal point on the line, whatever precedes it
SearchAnyNumber(line) ==
    LET at == { i \in 1..Len(line) : line[i].w = "float" }
    IN  IF at = {} THEN Unbound
        ELSE line[CHOOSE i \in at : \A j \in at : i <= j].x

\* float(match.group(1)) of the first match, Unbound when there is none
Search(line) ==
    IF MatchesAt(line) = {} THEN Unbound
    ELSE line[(CHOOSE i \in MatchesAt(line) :
                   \A j \in MatchesAt(line) : i <= j) + 1].x

\* radeontop prints a line
HelperWrite(E) ==
    \E l \in E.lines :
        /\ phase = "up" /\ helper = "alive" /\ pipe_open
        /\ Len(pipe) < MaxPipe
        /\ pipe' = Append(pipe, l)
        /\ UNCHANGED << phase, after_quit, running, radeontop_found, has_radeontop,
                        radeontop_process, radeontop_lock, gpu_percent,
                        reader_pc, reader_match, helper, pipe_open,
                        spawn_count, helper_failed, has_power_profiles,
                        current_power_profile, update_interval, prev_net_io,
                        prev_net_time, update_count, pc, loc, sampler_error,
                        last_query, main, idle, labels, sys_profile, requested >>

\* the helper exits of its own accord (pkexec refused, radeontop failed)
HelperExit ==
    /\ phase = "up" /\ helper = "alive" /\ main # "quit_wait"
    /\ helper' = "exited"
    /\ pipe_open' = FALSE
    /\ helper_failed' = TRUE
    /\ UNCHANGED << phase, after_quit, running, radeontop_found, has_radeontop,
                    radeontop_process, radeontop_lock, gpu_percent,
                    reader_pc, reader_match, pipe, spawn_count,
                    has_power_profiles, current_power_profile,
                    update_interval, prev_net_io, prev_net_time, update_count,
                    pc, loc, sampler_error, last_query, main, idle, labels,
                    sys_profile, requested >>

\* the helper closes its stdout and stays alive
HelperClose ==
    /\ phase = "up" /\ helper = "alive" /\ pipe_open /\ main # "quit_wait"
    /\ pipe_open' = FALSE
    /\ helper_failed' = TRUE
    /\ UNCHANGED << phase, after_quit, running, radeontop_found, has_radeontop,
                    radeontop_process, radeontop_lock, gpu_percent,
                    reader_pc, reader_match, helper, pipe, spawn_count,
                    has_power_profiles, current_power_profile,
                    update_interval, prev_net_io, prev_net_time, update_count,
                    pc, loc, sampler_error, last_query, main, idle, labels,
                    sys_profile, requested >>

\* the helper ends on the SIGTERM of quit
HelperTerminated ==
    /\ phase = "up" /\ helper = "alive" /\ main = "quit_wait"
    /\ helper' = "terminated"
    /\ pipe_open' = FALSE
    /\ UNCHANGED << phase, after_quit, running, radeontop_found, has_radeontop,
                    radeontop_process, radeontop_lock, gpu_percent,
                    reader_pc, reader_match, pipe, spawn_count, helper_failed,
                    has_power_profiles, current_power_profile,
                    update_interval, prev_net_io, prev_net_time, update_count,
                    pc, loc, sampler_error, last_query, main, idle, labels,
                    sys_profile, requested >>

\* ---------------------------------------------- read_radeontop_output
readerFrame == << phase, after_quit, running, radeontop_found, radeontop_process,
                  helper, pipe_open, spawn_count, has_power_profiles,
                  current_power_profile, update_interval, prev_net_io,
                  prev_net_time, update_count, pc, loc, sampler_error,
                  last_query, main, idle, labels, sys_profile, requested >>

\* while self.running and ...
R_LoopTest ==
    /\ phase = "up" /\ reader_pc = "loop"
    /\ reader_pc' = IF running THEN "poll" ELSE "after"
    /\ UNCHANGED << readerFrame, has_radeontop, radeontop_lock, gpu_percent,
                    reader_match, pipe, helper_failed >>

\* ... self.radeontop_process.poll() is None:
R_Poll ==
    /\ phase = "up" /\ reader_pc = "poll"
    /\ reader_pc' = IF helper = "alive" THEN "readline" ELSE "after"
    /\ UNCHANGED << readerFrame, has_radeontop, radeontop_lock, gpu_percent,
                    reader_match, pipe, helper_failed >>

\* line = stdout.readline(), which blocks until a line or the end of the
\* stream is there; if not line: break; the search; except Exception: break
R_Readline(E) ==
    \E err \in E.readerr :
        /\ phase = "up" /\ reader_pc = "readline"
        /\ IF pipe # << >>
           THEN /\ pipe' = Tail(pipe)
                /\ IF err
                   THEN /\ reader_pc' = "after"
                        /\ helper_failed' = TRUE
                        /\ UNCHANGED reader_match
                   ELSE /\ reader_match' = Search(Head(pipe))
                        /\ reader_pc' = IF Search(Head(pipe)) # Unbound
                                        THEN "lock" ELSE "loop"
                        /\ UNCHANGED helper_failed
           ELSE /\ ~pipe_open
                /\ reader_pc' = "after"
                /\ UNCHANGED << pipe, reader_match, helper_failed >>
        /\ after_quit' = Counted("reads")
        /\ UNCHANGED << phase, running, radeontop_found, radeontop_process,
                        helper, pipe_open, spawn_count, has_power_profiles,
                        current_power_profile, update_interval, prev_net_io,
                        prev_net_time, update_count, pc, loc, sampler_error,
                        last_query, main, idle, labels, sys_profile,
                        requested, has_radeontop, radeontop_lock,
                        gpu_percent >>

\* with self.radeontop_lock: (entry, line 315)
R_Acquire ==
    /\ phase = "up" /\ reader_pc = "lock"
    /\ radeontop_lock = "free"
    /\ radeontop_lock' = "reader"
    /\ reader_pc' = "write"
    /\ UNCHANGED << readerFrame, has_radeontop, gpu_percent, reader_match,
                    pipe, helper_failed >>

\* the reading stored and the lock kept over the next readline
R_WriteKeepsLock ==
    /\ phase = "up" /\ reader_pc = "write"
    /\ gpu_percent' = reader_match
    /\ reader_match' = Unbound
    /\ reader_pc' = "loop"
    /\ UNCHANGED << readerFrame, has_radeontop, radeontop_lock, pipe,
                    helper_failed >>

\* self.gpu_percent = float(match.group(1)), and the lock is released
R_Write ==
    /\ phase = "up" /\ reader_pc = "write"
    /\ gpu_percent' = reader_match
    /\ radeontop_lock' = "free"
    /\ reader_match' = Unbound
    /\ reader_pc' = "loop"
    /\ UNCHANGED << readerFrame, has_radeontop, pipe, helper_failed >>

\* the test inverted: if not self.running:
ReaderRecordsInverted == ~running

\* the test left out: the flag is cleared whenever the loop has ended
ReaderAlwaysRecords == TRUE

\* the test made on the process instead: if the helper has ended
ReaderRecordsIfEnded == helper # "alive"

\* the test the reader makes once its loop has ended: if self.running:
ReaderRecordsFailure == running

\* if self.running: (line 322)
R_After ==
    /\ phase = "up" /\ reader_pc = "after"
    /\ reader_pc' = IF ReaderRecordsFailure THEN "clearlock" ELSE "done"
    /\ UNCHANGED << readerFrame, has_radeontop, radeontop_lock, gpu_percent,
                    reader_match, pipe, helper_failed >>

\* with self.radeontop_lock: (entry, line 323)
R_ClearAcquire ==
    /\ phase = "up" /\ reader_pc = "clearlock"
    /\ radeontop_lock = "free"
    /\ radeontop_lock' = "reader"
    /\ reader_pc' = "clear"
    /\ UNCHANGED << readerFrame, has_radeontop, gpu_percent, reader_match,
                    pipe, helper_failed >>

\* the reader starting the helper anew instead of giving it up
R_ClearAndRespawn ==
    /\ phase = "up" /\ reader_pc = "clear"
    /\ spawn_count' = spawn_count + 1
    /\ helper' = "alive"
    /\ pipe' = << >>
    /\ pipe_open' = TRUE
    /\ radeontop_lock' = "free"
    /\ reader_pc' = "loop"
    /\ UNCHANGED << phase, after_quit, running, radeontop_found, has_radeontop,
                    radeontop_process, gpu_percent, reader_match,
                    helper_failed, has_power_profiles, current_power_profile,
                    update_interval, prev_net_io, prev_net_time, update_count,
                    pc, loc, sampler_error, last_query, main, requested, idle,
                    labels, sys_profile >>

\* self.has_radeontop = False, and the lock is released
R_Clear ==
    /\ phase = "up" /\ reader_pc = "clear"
    /\ has_radeontop' = FALSE
    /\ radeontop_lock' = "free"
    /\ reader_pc' = "done"
    /\ UNCHANGED << readerFrame, gpu_percent, reader_match, pipe,
                    helper_failed >>

\* ---------------------------------------------------------------- quit
\* quit: self.running = False (line 476)
Quit_Begin ==
    /\ phase = "up" /\ main = "idle"
    /\ running' = FALSE
    /\ main' = "quit"
    /\ UNCHANGED << phase, after_quit, gpuVars, has_power_profiles,
                    current_power_profile, update_interval, prev_net_io,
                    prev_net_time, update_count, pc, loc, sampler_error,
                    last_query, idle, labels, sys_profile, requested >>

\* if self.radeontop_process: self.radeontop_process.terminate(), which sends
\* SIGTERM unless the process has been seen to have ended; without a helper
\* process, Gtk.main_quit() at once
Quit_Terminate ==
    /\ phase = "up" /\ main = "quit"
    /\ IF radeontop_process # "None"
       THEN main' = "quit_wait" /\ UNCHANGED phase
       ELSE main' = "exited" /\ phase' = "exited"
    /\ UNCHANGED << after_quit, running, gpuVars, has_power_profiles,
                    current_power_profile, update_interval, prev_net_io,
                    prev_net_time, update_count, pc, loc, sampler_error,
                    last_query, idle, labels, sys_profile, requested >>

\* the helper left as it is when the wait times out
HelperAfterTimeoutLeft(h) == h

\* except subprocess.TimeoutExpired: self.radeontop_process.kill()
HelperAfterTimeout(h) == "killed"

\* wait(timeout=1) returns, or raises TimeoutExpired and kill() follows; then
\* Gtk.main_quit(), with which the program and its daemon threads end
Quit_Wait ==
    /\ phase = "up" /\ main = "quit_wait"
    /\ IF helper = "alive"
       THEN /\ helper' = HelperAfterTimeout(helper)
            /\ pipe_open' = (HelperAfterTimeout(helper) = "alive" /\ pipe_open)
       ELSE UNCHANGED << helper, pipe_open >>
    /\ main' = "exited"
    /\ phase' = "exited"
    /\ UNCHANGED << after_quit, running, radeontop_found, has_radeontop,
                    radeontop_process, radeontop_lock, gpu_percent,
                    reader_pc, reader_match, pipe, spawn_count, helper_failed,
                    has_power_profiles, current_power_profile,
                    update_interval, prev_net_io, prev_net_time, update_count,
                    pc, loc, sampler_error, last_query, idle, labels,
                    sys_profile, requested >>

\* ------------------------------------------------- the menu handlers
\* how pkexec powerprofilesctl set <profile> may end: it succeeds, exits
\* non-zero (CalledProcessError), or pkexec cannot be run at all (OSError,
\* which on_profile_toggled does not catch: it leaves the handler)
SetOutcomes == {"ok", "CalledProcessError", "OSError"}

\* if widget.get_active() and profile != self.current_power_profile:
SetsProfile(profile) == profile # current_power_profile

\* on_profile_toggled up to the blocking subprocess.run of the set command
OnProfileToggled_Begin ==
    \E profile \in Profiles :
        /\ phase = "up" /\ main = "idle" /\ has_power_profiles
        /\ SetsProfile(profile)
        /\ main' = "setting"
        /\ requested' = profile
        /\ UNCHANGED << phase, after_quit, running, gpuVars, has_power_profiles,
                        current_power_profile, update_interval, prev_net_io,
                        prev_net_time, update_count, pc, loc, sampler_error,
                        last_query, idle, labels, sys_profile >>

\* the tracked profile assigned before the set command has returned
ProfileAfterSetOptimistic(r, profile, current) == profile

\* self.current_power_profile = profile, reached only when subprocess.run
\* returned without raising (line 269)
ProfileAfterSet(r, profile, current) == IF r = "ok" THEN profile ELSE current

\* the set command returns: self.current_power_profile = profile, or
\* except CalledProcessError: GLib.idle_add(self.update_power_profile_ui)
OnProfileToggled_End(E) ==
    \E r \in E.set :
        /\ phase = "up" /\ main = "setting"
        /\ current_power_profile' =
               ProfileAfterSet(r, requested, current_power_profile)
        /\ sys_profile' = IF r = "ok" THEN requested ELSE sys_profile
        /\ IF r = "CalledProcessError"
           THEN /\ Len(idle) < MaxIdle
                /\ idle' = Append(idle, ProfileUiCall)
           ELSE UNCHANGED idle
        /\ main' = "idle"
        /\ requested' = NoProfile
        /\ UNCHANGED << phase, after_quit, running, gpuVars, has_power_profiles,
                        update_interval, prev_net_io, prev_net_time,
                        update_count, pc, loc, sampler_error, last_query,
                        labels >>

\* on_interval_toggled, which GTK calls for the radio item left (not active)
\* and for the one chosen (active): if widget.get_active(): assign
OnIntervalToggled ==
    \E interval \in Intervals, active \in BOOLEAN :
        /\ phase = "up" /\ main = "idle"
        /\ update_interval' = IF active THEN interval ELSE update_interval
        /\ UNCHANGED << phase, after_quit, running, gpuVars, has_power_profiles,
                        current_power_profile, prev_net_io, prev_net_time,
                        update_count, pc, loc, sampler_error, last_query,
                        main, requested, idle, labels, sys_profile >>

\* another program changes the daemon's profile
ExternalChange ==
    \E profile \in Profiles :
        /\ phase = "up" /\ profile # sys_profile
        /\ sys_profile' = profile
        /\ UNCHANGED << phase, after_quit, running, gpuVars, has_power_profiles,
                        current_power_profile, update_interval, prev_net_io,
                        prev_net_time, update_count, pc, loc, sampler_error,
                        last_query, main, requested, idle, labels >>

\* ------------------------------------------------------ environments
\* The specifications share the actions above and differ in the part of the
\* environment they let vary: E names, for each input of the program, the
\* values it is drawn from.

\* one reading per percentage source, one counter sample
OneNet == { [bytes_recv |-> 1000, bytes_sent |-> 500] }

\* network rates: no helper binary, no power-profiles daemon
EnvRates ==
    [ found |-> {FALSE}, pp |-> {FALSE}, query |-> {"ok"}, spawn |-> {"ok"},
      cpu |-> {375}, mem |-> {612}, disk |-> {480}, net |-> NetVals,
      time |-> TimeVals, fail |-> Sources,
      lines |-> {}, readerr |-> {FALSE}, set |-> {} ]

NextRates ==
    \/ Construct(EnvRates)
    \/ S_LoopTest
    \/ S_Cpu(EnvRates)
    \/ S_GpuCheck
    \/ S_Gather(EnvRates)
    \/ S_Sleep
    \/ S_Wake
    \/ UpdateLabels
    \/ Quit_Begin
    \/ Quit_Terminate

SpecRates == Init /\ [][NextRates]_vars

\* the helper and its reader: no power-profiles daemon
EnvGpu ==
    [ found |-> BOOLEAN, pp |-> {FALSE}, query |-> {"ok"},
      spawn |-> SpawnOutcomes,
      cpu |-> {375}, mem |-> {612}, disk |-> {480}, net |-> OneNet,
      time |-> {1, 2}, fail |-> {},
      lines |-> { << WordTok("gpu"), FloatTok(457), WordTok("vram"), FloatTok(123) >> },
      readerr |-> BOOLEAN, set |-> {} ]

NextGpu ==
    \/ Construct(EnvGpu)
    \/ S_LoopTest
    \/ S_Cpu(EnvGpu)
    \/ S_GpuCheck
    \/ S_GpuAcquire
    \/ S_GpuRead
    \/ S_Gather(EnvGpu)
    \/ S_Sleep
    \/ S_Wake
    \/ UpdateLabels
    \/ HelperWrite(EnvGpu)
    \/ HelperExit
    \/ HelperClose
    \/ HelperTerminated
    \/ R_LoopTest
    \/ R_Poll
    \/ R_Readline(EnvGpu)
    \/ R_Acquire
    \/ R_Write
    \/ R_After
    \/ R_ClearAcquire
    \/ R_Clear
    \/ Quit_Begin
    \/ Quit_Terminate
    \/ Quit_Wait

SpecGpu == Init /\ [][NextGpu]_vars

\* the steps of the reader thread
ReaderGpu ==
    \/ R_LoopTest
    \/ R_Poll
    \/ R_Readline(EnvGpu)
    \/ R_Acquire
    \/ R_Write
    \/ R_After
    \/ R_ClearAcquire
    \/ R_Clear

\* The reader thread is scheduled; the sampler holds the lock for one field
\* read in a cycle of a second or more, so the reader gets the lock it waits for.
FairGpu ==
    /\ SpecGpu
    /\ SF_vars(ReaderGpu)
    /\ WF_vars(S_GpuRead)

\* shutdown: the helper streams one kind of line, and may exit on its own
EnvQuit ==
    [ found |-> BOOLEAN, pp |-> {FALSE}, query |-> {"ok"}, spawn |-> {"ok"},
      cpu |-> {375}, mem |-> {612}, disk |-> {480}, net |-> OneNet,
      time |-> {1, 2}, fail |-> {},
      lines |-> { << WordTok("gpu"), FloatTok(457), WordTok("vram"), FloatTok(123) >> },
      readerr |-> {FALSE}, set |-> {} ]

\* the steps of the sampler thread
SamplerQuit ==
    \/ S_LoopTest
    \/ S_Cpu(EnvQuit)
    \/ S_GpuCheck
    \/ S_GpuAcquire
    \/ S_GpuRead
    \/ S_Gather(EnvQuit)
    \/ S_Sleep
    \/ S_Wake

\* the steps of the reader thread
ReaderQuit ==
    \/ R_LoopTest
    \/ R_Poll
    \/ R_Readline(EnvQuit)
    \/ R_Acquire
    \/ R_Write
    \/ R_After
    \/ R_ClearAcquire
    \/ R_Clear

NextQuit ==
    \/ Construct(EnvQuit)
    \/ SamplerQuit
    \/ ReaderQuit
    \/ UpdateLabels
    \/ HelperWrite(EnvQuit)
    \/ HelperExit
    \/ HelperTerminated
    \/ Quit_Begin
    \/ Quit_Terminate
    \/ Quit_Wait

SpecQuit == Init /\ [][NextQuit]_vars

\* Both threads are scheduled, and the main thread goes through quit, whose
\* wait returns after a second at the latest.
FairQuit ==
    /\ SpecQuit
    /\ WF_vars(SamplerQuit)
    /\ WF_vars(ReaderQuit)
    /\ WF_vars(Quit_Terminate \/ Quit_Wait)

\* the helper's lines: the helper runs, streams lines of every kind and may
\* close its stdout; no shutdown
EnvLines ==
    [ found |-> {TRUE}, pp |-> {FALSE}, query |-> {"ok"}, spawn |-> {"ok"},
      cpu |-> {375}, mem |-> {612}, disk |-> {480}, net |-> OneNet,
      time |-> {1, 2}, fail |-> {},
      lines |-> LineVals, readerr |-> BOOLEAN, set |-> {} ]

NextLines ==
    \/ Construct(EnvLines)
    \/ S_LoopTest
    \/ S_Cpu(EnvLines)
    \/ S_GpuCheck
    \/ S_GpuAcquire
    \/ S_GpuRead
    \/ S_Gather(EnvLines)
    \/ S_Sleep
    \/ S_Wake
    \/ UpdateLabels
    \/ HelperWrite(EnvLines)
    \/ HelperClose
    \/ R_LoopTest
    \/ R_Poll
    \/ R_Readline(EnvLines)
    \/ R_Acquire
    \/ R_Write
    \/ R_After
    \/ R_ClearAcquire
    \/ R_Clear

SpecLines == Init /\ [][NextLines]_vars

\* the percentages: the helper runs and streams, no power-profiles daemon
EnvPct ==
    [ found |-> {TRUE}, pp |-> {FALSE}, query |-> {"ok"}, spawn |-> {"ok"},
      cpu |-> CpuVals, mem |-> MemVals, disk |-> DiskVals, net |-> OneNet,
      time |-> {1, 2}, fail |-> {},
      lines |-> { << WordTok("gpu"), FloatTok(1000) >> },
      readerr |-> {FALSE}, set |-> {} ]

NextPct ==
    \/ Construct(EnvPct)
    \/ S_LoopTest
    \/ S_Cpu(EnvPct)
    \/ S_GpuCheck
    \/ S_GpuAcquire
    \/ S_GpuRead
    \/ S_Gather(EnvPct)
    \/ S_Sleep
    \/ S_Wake
    \/ UpdateLabels
    \/ HelperWrite(EnvPct)
    \/ R_LoopTest
    \/ R_Poll
    \/ R_Readline(EnvPct)
    \/ R_Acquire
    \/ R_Write

SpecPct == Init /\ [][NextPct]_vars

\* the power profile: no helper binary
EnvProfile ==
    [ found |-> {FALSE}, pp |-> BOOLEAN, query |-> QueryOutcomes,
      spawn |-> {"ok"},
      cpu |-> {375}, mem |-> {612}, disk |-> {480}, net |-> OneNet,
      time |-> {1, 2}, fail |-> Sources,
      lines |-> {}, readerr |-> {FALSE}, set |-> SetOutcomes ]

NextProfile ==
    \/ Construct(EnvProfile)
    \/ S_LoopTest
    \/ S_Cpu(EnvProfile)
    \/ S_GpuCheck
    \/ S_Gather(EnvProfile)
    \/ S_Query(EnvProfile)
    \/ S_Compare
    \/ S_Sleep
    \/ S_Wake
    \/ UpdateLabels
    \/ UpdatePowerProfileUi
    \/ OnProfileToggled_Begin
    \/ OnProfileToggled_End(EnvProfile)
    \/ OnIntervalToggled
    \/ ExternalChange
    \/ Quit_Begin
    \/ Quit_Terminate

SpecProfile == Init /\ [][NextProfile]_vars

\* the menu's profile change against the sampler's re-check: the daemon is
\* there, every query succeeds, and nobody else changes the profile
EnvRace ==
    [ found |-> {FALSE}, pp |-> {TRUE}, query |-> {"ok"}, spawn |-> {"ok"},
      cpu |-> {375}, mem |-> {612}, disk |-> {480}, net |-> OneNet,
      time |-> {1, 2}, fail |-> {},
      lines |-> {}, readerr |-> {FALSE}, set |-> SetOutcomes ]

NextRace ==
    \/ Construct(EnvRace)
    \/ S_LoopTest
    \/ S_Cpu(EnvRace)
    \/ S_GpuCheck
    \/ S_Gather(EnvRace)
    \/ S_Query(EnvRace)
    \/ S_Compare
    \/ S_Sleep
    \/ S_Wake
    \/ UpdateLabels
    \/ UpdatePowerProfileUi
    \/ OnProfileToggled_Begin
    \/ OnProfileToggled_End(EnvRace)

SpecRace == Init /\ [][NextRace]_vars

\* ---------------------------------------------------------- properties
Last(q) == q[Len(q)]

\* the update_labels calls waiting in the idle queue: the snapshots handed
\* over and not yet shown
Snapshots == { idle[i] : i \in { j \in 1..Len(idle) : idle[j].fn = "update_labels" } }

\* the sampler's step that takes the memory, disk and network readings
GatherStep == pc = "gather" /\ pc' # "gather"

\* C1: no failure of a metric source (CPU, memory, disk, network counters,
\* power-profile query) ends the sampler loop; the loop ends only after a
\* shutdown request.
C1_SourceFailureNeverHaltsLoop ==
    /\ sampler_error = "none"
    /\ pc = "done" => ~running

\* the helper has exited or closed its stdout, and no shutdown is requested
HelperLost ==
    /\ phase = "up" /\ running
    /\ helper = "exited" \/ (helper = "alive" /\ ~pipe_open)

\* C2: once the helper has exited or closed its stdout with no shutdown
\* requested, the reader eventually clears has_radeontop (unless a shutdown
\* request comes first); once cleared the flag is never set again, and no
\* cycle that began with the flag cleared hands over a GPU reading.
C2_HelperLossDisablesGpuForGood ==
    /\ HelperLost ~> (~has_radeontop \/ ~running)
    /\ [][ (phase # "new" /\ ~has_radeontop) => ~has_radeontop' ]_vars
    /\ [][ (loc.began_disabled /\ Len(idle') > Len(idle))
           => ~Last(idle').gpu_read ]_vars

C2_ClearedThenSampled ==
    /\ running /\ helper = "exited" /\ reader_pc = "done"
    /\ ~has_radeontop
    /\ pc = "sleep" /\ loc.began_disabled
    /\ idle # << >> /\ ~Last(idle).gpu_read

\* C3 as stated: GPU reporting is enabled exactly when the binary was found
\* and the helper has not failed.
C3_EnabledIffFoundAndNotFailed ==
    phase = "up" => (has_radeontop <=> (radeontop_found /\ ~helper_failed))

\* C3 as amended: GPU reporting is enabled only if the binary was found, and
\* disabled only if the binary was not found or the helper has failed; after
\* a failure it stays enabled until the reader records the failure.
C3_EnabledOnlyIfFound_DisabledOnlyIfFailed ==
    phase # "new" =>
        /\ has_radeontop => radeontop_found
        /\ ~has_radeontop => (~radeontop_found \/ helper_failed)

C3_FailureRecorded ==
    /\ phase = "up" /\ radeontop_found /\ helper_failed
    /\ reader_pc = "done" /\ ~has_radeontop

\* C4: with the binary absent, start_radeontop is never called, no helper
\* and no reader exist, and nothing handed over or shown has a GPU reading.
C4_AbsentBinaryMeansNoHelperNoGpu ==
    (phase # "new" /\ ~radeontop_found) =>
        /\ spawn_count = 0
        /\ radeontop_process = "None" /\ helper = "none"
        /\ reader_pc = "none"
        /\ ~loc.gpu_read
        /\ \A a \in Snapshots : ~a.gpu_read
        /\ labels.gpu = NoItem

C4_AbsentAndPublishing ==
    /\ phase = "up" /\ ~radeontop_found
    /\ Snapshots # {} /\ labels.cpu # Initializing

\* C5: start_radeontop is called at most once, and never after the helper
\* has failed.
C5_HelperSpawnedAtMostOnce ==
    /\ [](spawn_count <= 1)
    /\ [][ helper_failed => spawn_count' = spawn_count ]_vars

C5_CyclesAfterFailure ==
    /\ spawn_count = 1 /\ helper_failed /\ reader_pc = "done"
    /\ ~has_radeontop /\ pc = "gather"

\* C6: when the current timestamp is not later than the retained one, the
\* rate computation raises no error and the rate pair stays that of the
\* previous cycle.
C6_NonPositiveElapsedKeepsRates ==
    [][ ( /\ GatherStep
          /\ sampler_error' \in {"none", "ZeroDivisionError"}
          /\ loc'.current_time <= prev_net_time )
        => /\ sampler_error' = "none"
           /\ loc'.recv_speed = loc.recv_speed
           /\ loc'.sent_speed = loc.sent_speed ]_vars

\* C7: in a cycle with elapsed > 0, a field whose counter decreased gets the
\* rate 0, whatever the other field does, and no rate handed over is negative.
C7_CounterDecreaseGivesZeroRate ==
    [][ LET cur == loc'.current_net_io
            elapsed == loc'.current_time - prev_net_time
        IN  (GatherStep /\ sampler_error' = "none" /\ elapsed > 0)
            => /\ cur.bytes_recv < prev_net_io.bytes_recv
                  => loc'.recv_speed.num = 0
               /\ cur.bytes_sent < prev_net_io.bytes_sent
                  => loc'.sent_speed.num = 0
               /\ pc' = "sleep"
                  => /\ Last(idle').recv = loc'.recv_speed
                     /\ Last(idle').recv.num >= 0
                     /\ Last(idle').sent = loc'.sent_speed
                     /\ Last(idle').sent.num >= 0 ]_vars

\* C8: in a cycle with elapsed > 0, the rate of each field whose counter did
\* not decrease is (current bytes - retained bytes) / elapsed, that rate is
\* the one handed over, and afterwards the retained sample is the current one.
C8_RateIsDeltaOverElapsed ==
    [][ LET cur == loc'.current_net_io
            elapsed == loc'.current_time - prev_net_time
        IN  (GatherStep /\ sampler_error' = "none" /\ elapsed > 0)
            => /\ cur.bytes_recv >= prev_net_io.bytes_recv
                  => /\ loc'.recv_speed.den > 0
                     /\ loc'.recv_speed.num * elapsed
                          = (cur.bytes_recv - prev_net_io.bytes_recv)
                              * loc'.recv_speed.den
               /\ cur.bytes_sent >= prev_net_io.bytes_sent
                  => /\ loc'.sent_speed.den > 0
                     /\ loc'.sent_speed.num * elapsed
                          = (cur.bytes_sent - prev_net_io.bytes_sent)
                              * loc'.sent_speed.den
               /\ pc' = "sleep"
                  => /\ Last(idle').recv = loc'.recv_speed
                     /\ Last(idle').sent = loc'.sent_speed
               /\ prev_net_io' = cur
               /\ prev_net_time' = loc'.current_time ]_vars

\* the example of C8: 1000 -> 3048 and 500 -> 1012 bytes over 2 s
C8_Example ==
    /\ pc = "sleep" /\ idle # << >>
    /\ prev_net_io = [bytes_recv |-> 3048, bytes_sent |-> 1012]
    /\ prev_net_time = 2
    /\ Last(idle).recv = [num |-> 1024, den |-> 1]
    /\ Last(idle).sent = [num |-> 256, den |-> 1]

\* C9 as stated: every percentage handed over by update_stats lies in
\* [0, 99.9].
C9_HandedOverPercentagesCapped ==
    \A a \in Snapshots :
        \A v \in {a.cpu, a.gpu, a.mem, a.disk} : 0 <= v /\ v <= CapPercent

\* C9 as amended: every percentage the menu shows lies in [0, 99.9]; the cap
\* is applied by update_labels and format_percent when the values are shown.
C9_ShownPercentagesCapped ==
    \A f \in DOMAIN labels :
        \/ labels[f] \in {Initializing, NoItem}
        \/ 0 <= labels[f] /\ labels[f] <= CapPercent

C9_AllShownAtCap ==
    /\ labels.cpu = CapPercent /\ labels.gpu = CapPercent
    /\ labels.mem = CapPercent /\ labels.disk = CapPercent

\* C10: a re-check whose query fails leaves the tracked profile as it was,
\* whichever of the three profiles it is.
C10_FailedQueryKeepsProfile ==
    [][ ( /\ pc = "compare" /\ pc' = "sleep"
          /\ last_query = "CalledProcessError"
          /\ current_power_profile \in Profiles )
        => current_power_profile' = current_power_profile ]_vars

\* C11: the tracked profile is always one of performance, balanced,
\* power-saver: an unknown string printed by powerprofilesctl get is never
\* stored, neither by __init__ nor by a re-check.
C11_TrackedProfileIsKnown ==
    phase # "new" => current_power_profile \in Profiles

C14_IntervalChangeTakesEffectNextSleep ==
    /\ [][ update_interval' # update_interval =>
              pc' = pc /\ loc' = loc ]_vars
    /\ [][ (pc = "sleep" /\ pc' = "sleeping") =>
              loc'.sleep_for = update_interval ]_vars
    /\ [][ (pc = "sleeping" /\ pc' = "sleeping") =>
              loc'.sleep_for = loc.sleep_for ]_vars

\* the interval was changed from 2 to 1 during a sleep of 2 seconds
C14_ChangedDuringSleep ==
    /\ pc = "sleeping" /\ loc.sleep_for = 2 /\ update_interval = 1

\* C19: the sleep that ends a cycle lasts max(0, interval - elapsed), elapsed
\* being the time the cycle has taken, so that a cycle and its sleep last
\* together as long as the interval when the cycle's work does not exceed it.
C19_SleepIsIntervalMinusElapsed ==
    [][ (pc = "sleep" /\ pc' = "sleeping") =>
          /\ loc'.sleep_for =
               IF update_interval > loc.elapsed
               THEN update_interval - loc.elapsed ELSE 0
          /\ loc.elapsed <= update_interval
               => loc.elapsed + loc'.sleep_for = update_interval ]_vars

\* C15: once quit has cleared running, the sampler begins no cycle and hands
\* over at most one more, the reader gets at most one more line from
\* readline, and both threads come to an end (at the latest with the
\* program, when quit reaches Gtk.main_quit).
C15_ShutdownEndsThreadsAfterCurrentStep ==
    /\ [](after_quit.cycles = 0)
    /\ [](after_quit.handed <= 1)
    /\ [](after_quit.reads <= 1)
    /\ (phase = "up" /\ ~running)
         ~> (phase = "exited" \/ (/\ pc \in {"done", "dead"}
                                  /\ reader_pc \in {"none", "done"}))

\* after the shutdown request the sampler has handed over the cycle it was
\* in and left its loop, and the reader has read once more and ended
C15_BothEndedBeforeExit ==
    /\ phase = "up" /\ ~running
    /\ after_quit.handed = 1 /\ after_quit.reads = 1
    /\ pc = "done" /\ reader_pc = "done"

\* C16: with a helper process handle, quit asks the helper to terminate
\* before it waits, kills it only when it is still alive at the end of the
\* wait, and never before the terminate request; when quit has finished the
\* helper is not running, and quit does finish.
C16_TerminateThenKillIfStillAlive ==
    /\ [][ (helper' = "killed" /\ helper # "killed") =>
              main = "quit_wait" /\ helper = "alive" ]_vars
    /\ [][ (helper' = "terminated" /\ helper # "terminated") =>
              main = "quit_wait" ]_vars
    /\ [][ (main = "quit" /\ main' # "quit") =>
              (main' = "quit_wait" <=> radeontop_process # "None") ]_vars
    /\ []((phase = "exited" /\ radeontop_process # "None")
            => helper # "alive")
    /\ (main = "quit" /\ radeontop_process # "None")
         ~> (phase = "exited" /\ helper # "alive")

\* the helper did not end on the terminate request and was killed
C16_KilledAfterGrace ==
    /\ phase = "exited" /\ helper = "killed" /\ ~running

\* C17: the reader writes gpu_percent, and the sampler reads it, only while
\* holding radeontop_lock; a thread holds the lock only at the one access it
\* took it for, never at a blocking call (readline, the CPU measurement, the
\* profile query, the sleep); whoever holds the lock can go on and release
\* it, so no thread waits for it forever.
C17_GpuReadingGuardedAndLockShortLived ==
    /\ [][ gpu_percent' # gpu_percent =>
              /\ radeontop_lock = "reader" /\ reader_pc = "write"
              /\ radeontop_lock' = "free" ]_vars
    /\ [][ (loc'.gpu_read /\ ~loc.gpu_read) =>
              /\ radeontop_lock = "sampler" /\ pc = "read"
              /\ loc'.gpu_percent = gpu_percent
              /\ radeontop_lock' = "free" ]_vars
    /\ [](radeontop_lock = "sampler" => pc = "read")
    /\ [](radeontop_lock = "reader" => reader_pc \in {"write", "clear"})
    /\ []((phase = "up" /\ radeontop_lock = "sampler") => ENABLED S_GpuRead)
    /\ []((phase = "up" /\ radeontop_lock = "reader")
            => ENABLED (R_Write \/ R_Clear))

\* the sampler waits for the lock while the reader stores a reading
C17_SamplerWaitsForReader ==
    /\ phase = "up" /\ radeontop_lock = "reader"
    /\ reader_pc = "write" /\ pc = "lock"

\* the numbers that follow the word gpu on a line and have a decimal point
GpuNumbers(line) ==
    { line[i + 1].x : i \in { j \in 1..(Len(line) - 1) :
                                /\ line[j] = WordTok("gpu")
                                /\ line[j + 1] = FloatTok(line[j + 1].x) } }

\* C18: gpu_percent changes only when the reader stores the number of a line
\* it has read, a line on which the word gpu is followed by a number with a
\* decimal point; a line without that leaves it as it is (gpu 45.7 vram
\* 12.3 gives 45.7, memory 80.0 gives no change); it is 0 until the first
\* such line, and the value the sampler reads under the lock and hands over
\* is the one stored last.
C18_GpuReadingFollowsMatchingLines ==
    /\ [](phase = "new" => gpu_percent = 0)
    /\ [][ gpu_percent' # gpu_percent =>
              /\ reader_pc = "write" /\ reader_match # Unbound
              /\ gpu_percent' = reader_match ]_vars
    /\ [][ (reader_pc = "readline" /\ reader_pc' \in {"lock", "loop"}) =>
              LET line == Head(pipe)
              IN  /\ gpu_percent' = gpu_percent
                  /\ reader_pc' = "lock"
                       <=> GpuNumbers(line) # {}
                  /\ reader_pc' = "lock"
                       => reader_match' \in GpuNumbers(line)
                  /\ line = << WordTok("gpu"), FloatTok(457),
                               WordTok("vram"), FloatTok(123) >>
                       => reader_match' = 457
                  /\ line = << WordTok("memory"), FloatTok(800) >>
                       => reader_pc' = "loop" ]_vars
    /\ [][ (loc'.gpu_read /\ ~loc.gpu_read) =>
              loc'.gpu_percent = gpu_percent ]_vars
    /\ [][ (Len(idle') > Len(idle) /\ loc.gpu_read) =>
              Last(idle').gpu = loc.gpu_percent ]_vars

\* 45.7 was read and handed over; since then a line on which gpu is first
\* followed by a number without a decimal point has been read and stored
C18_StaleSnapshotNewerReading ==
    /\ idle # << >> /\ Last(idle).gpu_read /\ Last(idle).gpu = 457
    /\ gpu_percent = 1000 /\ pipe = << << WordTok("memory"), FloatTok(800) >> >>

\* C20: with no other program changing the profile, the tracked profile
\* changes only when a set command has succeeded, and then to the profile
\* requested: a re-check whose query ran before the set does not put the
\* older profile back.
C20_OnlySuccessfulSetChangesProfile ==
    [][ (phase = "up" /\ current_power_profile' # current_power_profile) =>
          /\ main = "setting" /\ main' = "idle"
          /\ current_power_profile' = requested
          /\ sys_profile' = requested ]_vars

\* where the reader stands while it is in its while loop
ReaderInLoop == reader_pc \in {"loop", "poll", "readline", "lock", "write"}

\* C21: quit clears running before the helper is terminated or killed, the
\* reader goes on to clear has_radeontop only if running is true when its
\* loop has ended, and so a reader that is still in its loop once quit has
\* cleared running never clears the flag, however it interleaves with quit:
\* the helper's end on shutdown is not recorded as a failure.
C21_ShutdownExitIsNoFailure ==
    /\ [][ (helper = "alive" /\ helper' \in {"terminated", "killed"}) =>
              ~running ]_vars
    /\ [][ (reader_pc = "after" /\ reader_pc' # "after") =>
              (reader_pc' = "clearlock" <=> running) ]_vars
    /\ []((ReaderInLoop /\ ~running /\ has_radeontop) => []has_radeontop)
    /\ []((helper \in {"terminated", "killed"} /\ ~helper_failed
              /\ radeontop_found) => has_radeontop)

\* the helper ended on quit's terminate request, the reader met the end of
\* the stream and finished, and GPU reporting is still enabled
C21_TerminatedAndStillEnabled ==
    /\ phase = "up" /\ main = "quit_wait" /\ ~running
    /\ helper = "terminated" /\ reader_pc = "done"
    /\ after_quit.reads = 1 /\ has_radeontop

====
